---------------------------- MODULE Spec2Model ----------------------------
(***************************************************************************)
(* Model of bot.py: a Telegram bot that stores every conversation turn in  *)
(* a remote table ("conversations"), selects a bounded part of a user's    *)
(* history (smart_history_selection) and sends it, with a system preamble  *)
(* and the new message, to a text-generation API (get_ai_response).        *)
(*                                                                         *)
(* The table is a sequence of rows in insertion order.  The store assigns  *)
(* id and created_at on insert; both grow with every insert, so no two     *)
(* rows share a created_at.  Every call to the store or to the API is a    *)
(* blocking call made from a coroutine of the single asyncio event loop:   *)
(* pc names the call the running handler is in, and nothing else runs      *)
(* while pc names a blocking call.  Updates are dispatched one at a time   *)
(* (Application.builder() without concurrent_updates).                     *)
(***************************************************************************)
EXTENDS Integers, Sequences, FiniteSets, TLC

VARIABLES
    supabase,        \* TRUE: create_client succeeded; FALSE: supabase is None
    conversations,   \* the table: rows [id, user_id, role, content, created_at]
    next_id,         \* the store's insert counter
    update_queue,    \* updates fetched from Telegram and not yet dispatched
    cur,             \* the update whose handler is running, or NoUpdate
    pc,              \* where that handler is
    history,         \* get_ai_response: what smart_history_selection returned
    sel_path,        \* which return of smart_history_selection was taken
    middle_indices,  \* smart_history_selection: the indices random.sample drew
    messages,        \* get_ai_response: the message list of the API request
    api,             \* how the API call ended
    response,        \* the text the handler replies with
    typing_task,     \* the keep_typing task of the running handler
    task_actions,    \* chat actions keep_typing itself has sent
    request_base,    \* next_id when get_ai_response was entered (0: not in it)
    user_saved       \* what save_message(user_id, "user", ...) returned

vars == <<supabase, conversations, next_id, update_queue, cur, pc, history,
          sel_path, middle_indices, messages, api, response, typing_task,
          task_actions, request_base, user_saved>>

----------------------------------------------------------------------------
(* Bounds of the model *)

\* updates in the queue when polling starts
MaxUpdates == 2
\* length of the long content (longer than any display or context cap)
LongLen == 501

(* Constants of the program *)

\* .limit(80) of smart_history_selection
CAP == 80
\* if len(all_messages) <= 40
TARGET == 40
\* all_messages[-30:]
R == 30
\* if len(all_messages) > 30
ANCHOR_MIN == 30
\* if len(all_messages) > 35
MIDDLE_MIN == 35
\* middle_start = 30
MIDDLE_START == 30
\* middle_end = len(all_messages) - 30
MIDDLE_TAIL == 30
\* all_messages[:5]
A == 5
\* min(5, middle_end - middle_start)
S == 5
\* get_conversation_history(user_id, limit=40) of the fallback
FALLBACK_LIMIT == 40
\* get_conversation_history(user_id, limit=10) of /history
HISTORY_LIMIT == 10
\* if response.status_code == 200
HTTP_OK == 200
\* keep_typing(context, update.effective_chat.id, 25)
TYPING_SECONDS == 25
\* for _ in range(seconds // 5), asyncio.sleep(5)
TYPING_PERIOD == 5
\* msg["content"][:60] of /history
DISPLAY_CAP == 60

Users == {"u1", "u2"}

RECURSIVE Rep(_)
Rep(n) == IF n = 0 THEN ""
          ELSE LET h == Rep(n \div 2)
               IN  IF n % 2 = 0 THEN h \o h ELSE h \o h \o "x"

LongText == Rep(LongLen)
Texts == {"hello", LongText}
Completions == {"pong"}

NoUpdate == [kind |-> "none", user |-> "nobody", text |-> ""]

----------------------------------------------------------------------------
(* Sequences, as Python lists *)

Min(a, b) == IF a < b THEN a ELSE b
Max(a, b) == IF a > b THEN a ELSE b

\* s[::-1]
Reverse(s) == [i \in 1..Len(s) |-> s[Len(s) + 1 - i]]

\* s[:k]
FirstN(s, k) == SubSeq(s, 1, Min(k, Len(s)))

\* s[-k:]
LastN(s, k) == SubSeq(s, Max(1, Len(s) - k + 1), Len(s))

SeqMax(T) == CHOOSE x \in T : \A y \in T : y <= x

\* the elements of a set of numbers, largest first
RECURSIVE Descending(_)
Descending(T) == IF T = {} THEN <<>>
                 ELSE <<SeqMax(T)>> \o Descending(T \ {SeqMax(T)})

----------------------------------------------------------------------------
(* The store *)

Timestamp(k) == 1000 + 7 * k

NewRow(k, user_id, role, content) ==
    [id |-> k, user_id |-> user_id, role |-> role, content |-> content,
     created_at |-> Timestamp(k)]

\* .eq("user_id", str(user_id))
UserRows(table, user_id) == SelectSeq(table, LAMBDA r : r.user_id = user_id)

RECURSIVE MergeByCreatedAt(_, _)
MergeByCreatedAt(a, b) ==
    IF a = <<>> THEN b
    ELSE IF b = <<>> THEN a
    ELSE IF b[1].created_at < a[1].created_at
         THEN <<b[1]>> \o MergeByCreatedAt(a, Tail(b))
         ELSE <<a[1]>> \o MergeByCreatedAt(Tail(a), b)

\* a stable sort, ascending by created_at
RECURSIVE SortByCreatedAt(_)
SortByCreatedAt(s) ==
    IF Len(s) <= 1 THEN s
    ELSE LET h == Len(s) \div 2
         IN  MergeByCreatedAt(SortByCreatedAt(SubSeq(s, 1, h)),
                              SortByCreatedAt(SubSeq(s, h + 1, Len(s))))

\* mutant: desc=True is left out, the oldest rows are read
OrderAscLimit(table, user_id, limit) ==
    FirstN(SortByCreatedAt(UserRows(table, user_id)), limit)

\* .order("created_at", desc=True).limit(limit).execute(): response.data
OrderDescLimit(table, user_id, limit) ==
    FirstN(Reverse(SortByCreatedAt(UserRows(table, user_id))), limit)

\* .insert(data).execute()
Insert(table, k, user_id, role, content) ==
    Append(table, NewRow(k, user_id, role, content))

\* mutant: the .eq filter is left out, every row is deleted
DeleteUserUnfiltered(table, user_id) == SelectSeq(table, LAMBDA r : FALSE)

\* .delete().eq("user_id", str(user_id)).execute()
DeleteUser(table, user_id) == SelectSeq(table, LAMBDA r : r.user_id # user_id)

----------------------------------------------------------------------------
(* save_message, get_conversation_history, clear_history, get_stats.       *)
(* ok is the outcome of the store call: FALSE when execute() raises.       *)

\* save_message: the table after the call
save_message(table, k, user_id, role, content, ok) ==
    IF ~supabase THEN table
    ELSE IF ok THEN Insert(table, k, user_id, role, content)
    ELSE table

\* mutant: the [::-1] is forgotten, the newest row comes first
get_conversation_history_newest_first(table, user_id, limit, ok) ==
    IF ~supabase THEN <<>>
    ELSE IF ok THEN OrderDescLimit(table, user_id, limit)
    ELSE <<>>

\* get_conversation_history: response.data[::-1], [] on any failure
get_conversation_history(table, user_id, limit, ok) ==
    IF ~supabase THEN <<>>
    ELSE IF ok THEN Reverse(OrderDescLimit(table, user_id, limit))
    ELSE <<>>

\* mutant: the delete is built and never executed
clear_history_not_executed(table, user_id, ok) == table

\* clear_history: the table after the call
clear_history(table, user_id, ok) ==
    IF ~supabase THEN table
    ELSE IF ok THEN DeleteUser(table, user_id)
    ELSE table

----------------------------------------------------------------------------
(* smart_history_selection *)

\* all_messages = response.data[::-1]
AllMessages(data) == Reverse(data)

\* the subsets of T with k elements
RECURSIVE KSubsets(_, _)
KSubsets(T, k) ==
    IF k = 0 THEN {{}}
    ELSE IF Cardinality(T) < k THEN {}
    ELSE LET x == SeqMax(T)
         IN  {U \cup {x} : U \in KSubsets(T \ {x}, k - 1)}
                 \cup KSubsets(T \ {x}, k)

\* random.sample(range(lo, hi), k): k distinct indices of lo..hi-1 in the
\* order drawn.  Every k-subset can be drawn; each is listed here in its
\* descending and in its ascending order (the draw order only decides where
\* the rows are appended before the sort).
RandomSample(lo, hi, k) ==
    UNION {{Descending(T), Reverse(Descending(T))} : T \in KSubsets(lo..(hi - 1), k)}

\* mutant: one index more than S is drawn
MiddleDrawsOneMore(n) ==
    IF n > MIDDLE_MIN /\ n - MIDDLE_TAIL > MIDDLE_START
    THEN RandomSample(MIDDLE_START, n - MIDDLE_TAIL,
                      Min(S + 1, n - MIDDLE_TAIL - MIDDLE_START))
    ELSE {<<>>}

\* mutant: the middle starts right after the anchor, range(5, n - 30)
MiddleDrawsAfterAnchor(n) ==
    IF n > MIDDLE_MIN /\ n - MIDDLE_TAIL > A
    THEN RandomSample(A, n - MIDDLE_TAIL, Min(S, n - MIDDLE_TAIL - A))
    ELSE {<<>>}

\* the values middle_indices can take for len(all_messages) = n
\* (<<>>: random.sample is not called)
MiddleDraws(n) ==
    IF n > MIDDLE_MIN
    THEN LET middle_start == MIDDLE_START
             middle_end == n - MIDDLE_TAIL
         IN  IF middle_end > middle_start
             THEN RandomSample(middle_start, middle_end,
                               Min(S, middle_end - middle_start))
             ELSE {<<>>}
    ELSE {<<>>}

\* mutant: the recency slice is taken from the head, all_messages[:30]
CandidatesFromHead(all_messages, mid) ==
    FirstN(all_messages, R)
        \o (IF Len(all_messages) > ANCHOR_MIN THEN FirstN(all_messages, A) ELSE <<>>)
        \o [i \in 1..Len(mid) |-> all_messages[mid[i] + 1]]

\* selected_messages, before deduplication
Candidates(all_messages, mid) ==
    LastN(all_messages, R)
        \o (IF Len(all_messages) > ANCHOR_MIN THEN FirstN(all_messages, A) ELSE <<>>)
        \o [i \in 1..Len(mid) |-> all_messages[mid[i] + 1]]

\* the seen_ids loop: the first row of every id, in order
RECURSIVE UniqueFrom(_, _, _, _)
UniqueFrom(sel, i, seen_ids, unique_messages) ==
    IF i > Len(sel) THEN unique_messages
    ELSE IF sel[i].id \in seen_ids
         THEN UniqueFrom(sel, i + 1, seen_ids, unique_messages)
         ELSE UniqueFrom(sel, i + 1, seen_ids \cup {sel[i].id},
                         Append(unique_messages, sel[i]))

\* mutant: rows are compared by content, not by id
RECURSIVE UniqueByContentFrom(_, _, _, _)
UniqueByContentFrom(sel, i, seen, unique_messages) ==
    IF i > Len(sel) THEN unique_messages
    ELSE IF sel[i].content \in seen
         THEN UniqueByContentFrom(sel, i + 1, seen, unique_messages)
         ELSE UniqueByContentFrom(sel, i + 1, seen \cup {sel[i].content},
                                  Append(unique_messages, sel[i]))

UniqueByContent(sel) == UniqueByContentFrom(sel, 1, {}, <<>>)

Unique(sel) == UniqueFrom(sel, 1, {}, <<>>)

\* mutant: the sort is left out
SortSelectedNot(unique_messages) == unique_messages

\* unique_messages.sort(key=lambda x: x['created_at'])
SortSelected(unique_messages) == SortByCreatedAt(unique_messages)

\* the return value when more than TARGET rows were fetched
SelectReduced(all_messages, mid) ==
    SortSelected(Unique(Candidates(all_messages, mid)))

\* mutant: the early return is taken at the size of the recency slice
IsSmallAtRecency(all_messages) == Len(all_messages) <= R

\* if len(all_messages) <= 40: return all_messages
IsSmall(all_messages) == Len(all_messages) <= TARGET

----------------------------------------------------------------------------
(* get_ai_response *)

SystemPrompt == "system-preamble"

\* what goes into the request for one selected row
HistoryEntry(msg) == [role |-> msg.role, content |-> msg.content]

\* mutant: the current message is put before the history
BuildMessagesNewFirst(hist, user_message) ==
    <<[role |-> "system", content |-> SystemPrompt]>>
        \o <<[role |-> "user", content |-> user_message]>>
        \o [i \in 1..Len(hist) |-> HistoryEntry(hist[i])]

\* messages: the preamble, the selected history, the current message
BuildMessages(hist, user_message) ==
    <<[role |-> "system", content |-> SystemPrompt]>>
        \o [i \in 1..Len(hist) |-> HistoryEntry(hist[i])]
        \o <<[role |-> "user", content |-> user_message]>>

ApiPending == [kind |-> "pending", status |-> 0, body |-> "", text |-> ""]

\* how requests.post(..., timeout=60) can end
ApiOutcomes ==
    {[kind |-> "timeout", status |-> 0, body |-> "", text |-> ""],
     [kind |-> "exception", status |-> 0, body |-> "", text |-> ""],
     [kind |-> "response", status |-> 500, body |-> "json", text |-> "internal error"],
     [kind |-> "response", status |-> 204, body |-> "none", text |-> ""],
     [kind |-> "response", status |-> HTTP_OK, body |-> "malformed", text |-> ""]}
    \cup {[kind |-> "response", status |-> HTTP_OK, body |-> "json", text |-> c] :
            c \in Completions}

MsgStatusError == "status-error"
MsgTimeout == "timed-out"
MsgTechnical == "technical-error"
FixedMessages == {MsgStatusError, MsgTimeout, MsgTechnical}

\* mutant: the reply is saved whatever the call's outcome
ReachesSaveAlways(outcome) == outcome.kind \in {"response", "timeout", "exception"}

\* TRUE when the try block reaches save_message(user_id, "assistant", ...)
ReachesSave(outcome) ==
    /\ outcome.kind = "response"
    /\ outcome.status = HTTP_OK
    /\ outcome.body = "json"

\* mutant: a status error is reported with the body the API sent
ResponseTextWithDetail(outcome) ==
    IF outcome.kind = "timeout" THEN MsgTimeout
    ELSE IF outcome.kind = "exception" THEN MsgTechnical
    ELSE IF outcome.status = HTTP_OK
         THEN IF outcome.body = "json" THEN outcome.text ELSE MsgTechnical
         ELSE outcome.text

\* the text get_ai_response returns for an outcome of the call
ResponseText(outcome) ==
    IF outcome.kind = "timeout" THEN MsgTimeout
    ELSE IF outcome.kind = "exception" THEN MsgTechnical
    ELSE IF outcome.status = HTTP_OK
         THEN IF outcome.body = "json" THEN outcome.text ELSE MsgTechnical
         ELSE MsgStatusError

----------------------------------------------------------------------------
(* Replies and the command handlers' views *)

NoStats == [total |-> 0, user |-> 0, assistant |-> 0, last_active |-> "absent",
            last_at |-> 0]

MkReply(kind, text, stats_data, lines) ==
    [kind |-> kind, text |-> text, stats |-> stats_data, lines |-> lines]

NoReply == MkReply("none", "", NoStats, <<>>)

TextReply(text) == MkReply("text", text, NoStats, <<>>)

\* get_stats reads without .order(): the order of response.data is the
\* store's choice.  Each value lists the user's rows with one of them last.
StatsReads(table, user_id) ==
    LET rows == UserRows(table, user_id)
    IN  IF rows = <<>> THEN {<<>>}
        ELSE {SelectSeq(rows, LAMBDA r : r.id # rows[j].id) \o <<rows[j]>> :
                j \in 1..Len(rows)}

\* mutant: the role test is left out
CountRoleAll(data, role) == Len(data)

CountRole(data, role) == Cardinality({i \in 1..Len(data) : data[i].role = role})

\* get_stats: the dictionary returned for response.data = data
StatsOf(data) ==
    [total |-> Len(data),
     user |-> CountRole(data, "user"),
     assistant |-> CountRole(data, "assistant"),
     last_active |-> IF data # <<>> THEN "value" ELSE "None",
     last_at |-> IF data # <<>> THEN data[Len(data)].created_at ELSE 0]

\* the dictionary of the two failure returns: no last_active key
StatsFailed == NoStats

\* stats_data.get('last_active', 'никогда') as shown
LastActiveShown(stats_data) ==
    IF stats_data.last_active = "absent" THEN "never"
    ELSE IF stats_data.last_active = "None" THEN "None"
    ELSE "at"

\* one line of /history: msg["content"][:60] + ("..." if longer)
HistoryLine(msg) ==
    [role |-> msg.role, created_at |-> msg.created_at,
     content |-> IF Len(msg.content) > DISPLAY_CAP
                 THEN SubSeq(msg.content, 1, DISPLAY_CAP) \o "..."
                 ELSE msg.content]

HistoryLines(history_data) ==
    LET shown == LastN(history_data, HISTORY_LIMIT)
    IN  [i \in 1..Len(shown) |-> HistoryLine(shown[i])]

----------------------------------------------------------------------------
(* Initial states *)

Updates ==
    {[kind |-> "message", user |-> u, text |-> t] : u \in Users, t \in Texts}
    \cup {[kind |-> k, user |-> u, text |-> ""] :
            k \in {"history", "clear", "stats"}, u \in Users}

\* the queues of 1..n updates
RECURSIVE Queues(_)
Queues(n) ==
    IF n = 0 THEN {}
    ELSE {<<u>> : u \in Updates}
         \cup {Append(q, u) : q \in Queues(n - 1), u \in Updates}

\* a table of n1 rows of u1 and n2 rows of u2, written in turn
PresetOwner(i, n1, n2) ==
    IF i <= 2 * Min(n1, n2) THEN (IF i % 2 = 1 THEN "u1" ELSE "u2")
    ELSE IF n1 > n2 THEN "u1" ELSE "u2"

PresetTable(n1, n2) ==
    [i \in 1..(n1 + n2) |->
        NewRow(i, PresetOwner(i, n1, n2),
               IF (i \div 2) % 2 = 0 THEN "user" ELSE "assistant",
               IF i % 13 = 0 THEN LongText ELSE "old")]

\* <<rows of u1, rows of u2>> of the tables a run starts with
Presets == {<<0, 0>>, <<3, 2>>, <<40, 1>>, <<60, 2>>}

\* the tables the selector is run on
SelectorPresets ==
    {<<0, 0>>, <<10, 2>>, <<39, 0>>, <<40, 1>>, <<41, 0>>, <<59, 2>>, <<60, 0>>,
     <<61, 1>>, <<63, 0>>, <<66, 0>>, <<69, 3>>, <<100, 2>>}

InitWith(tables, queues) ==
    /\ supabase \in BOOLEAN
    /\ conversations \in tables
    /\ next_id = Len(conversations) + 1
    /\ update_queue \in queues
    /\ cur = NoUpdate
    /\ pc = "idle"
    /\ history = <<>>
    /\ sel_path = "none"
    /\ middle_indices = <<>>
    /\ messages = <<>>
    /\ api = ApiPending
    /\ response = NoReply
    /\ typing_task = "none"
    /\ task_actions = 0
    /\ request_base = 0
    /\ user_saved = "unset"

Init == InitWith({PresetTable(p[1], p[2]) : p \in Presets}, Queues(MaxUpdates))

----------------------------------------------------------------------------
(* handle_message and get_ai_response: what follows a call *)

\* the return value of save_message
SaveResult(ok) == IF supabase /\ ok THEN "saved" ELSE "failed"

\* mutant: get_ai_response gives up when the user turn was not saved
AfterSaveUserChecked(saved) == IF saved = "saved" THEN "select" ELSE "reply"

\* get_ai_response goes on to smart_history_selection whatever
\* save_message returned
AfterSaveUser(saved) == "select"

\* mutant: typing_task.cancel() is left out
CancelTypingNot(task) == task

\* typing_task.cancel(): the task is cancelled when the loop next runs it
CancelTyping(task) == IF task \in {"created", "sleeping"} THEN "cancelling" ELSE task

----------------------------------------------------------------------------
(* The event loop.  The loop is free when no handler runs or the running   *)
(* handler is in an await; it is blocked when the handler is in a call.    *)

LoopFree == pc \in {"idle", "chat_action", "reply"}

\* Application: the next update is handed to its handler
Dispatch ==
    /\ pc = "idle"
    /\ update_queue # <<>>
    /\ cur' = Head(update_queue)
    /\ update_queue' = Tail(update_queue)
    /\ pc' = IF Head(update_queue).kind = "message" THEN "chat_action"
             ELSE Head(update_queue).kind
    /\ UNCHANGED <<supabase, conversations, next_id, history, sel_path,
                   middle_indices, messages, api, response, typing_task,
                   task_actions>>
    /\ request_base' = request_base
    /\ user_saved' = user_saved

\* handle_message: send_chat_action returns, the typing task is created and
\* get_ai_response is entered
StartResponse ==
    /\ pc = "chat_action"
    /\ typing_task' = "created"
    /\ task_actions' = 0
    /\ pc' = "save_user"
    /\ request_base' = next_id
    /\ user_saved' = "unset"
    /\ UNCHANGED <<supabase, conversations, next_id, update_queue, cur, history,
                   sel_path, middle_indices, messages, api, response>>

\* get_ai_response, step 1: save_message(user_id, "user", user_message)
SaveUser ==
    /\ pc = "save_user"
    /\ \E ok \in (IF supabase THEN BOOLEAN ELSE {FALSE}) :
         /\ conversations' = save_message(conversations, next_id, cur.user,
                                          "user", cur.text, ok)
         /\ next_id' = IF conversations' # conversations THEN next_id + 1 ELSE next_id
         /\ user_saved' = SaveResult(ok)
         /\ pc' = AfterSaveUser(SaveResult(ok))
    /\ UNCHANGED <<supabase, update_queue, cur, history, sel_path,
                   middle_indices, messages, api, response, typing_task,
                   task_actions>>
    /\ request_base' = request_base

\* smart_history_selection, then the message list is built
Select ==
    /\ pc = "select"
    /\ IF ~supabase
       THEN /\ history' = <<>>
            /\ sel_path' = "no_client"
            /\ middle_indices' = <<>>
       ELSE \E ok \in BOOLEAN :
              IF ok
              THEN LET all_messages ==
                           AllMessages(OrderDescLimit(conversations, cur.user, CAP))
                   IN  IF IsSmall(all_messages)
                       THEN /\ history' = all_messages
                            /\ sel_path' = "all"
                            /\ middle_indices' = <<>>
                       ELSE \E mid \in MiddleDraws(Len(all_messages)) :
                              /\ history' = SelectReduced(all_messages, mid)
                              /\ sel_path' = "reduced"
                              /\ middle_indices' = mid
              ELSE \E ok2 \in BOOLEAN :
                     /\ history' = get_conversation_history(conversations, cur.user,
                                                            FALLBACK_LIMIT, ok2)
                     /\ sel_path' = IF ok2 THEN "fallback" ELSE "fallback_failed"
                     /\ middle_indices' = <<>>
    /\ messages' = BuildMessages(history', cur.text)
    /\ pc' = "post"
    /\ UNCHANGED <<supabase, conversations, next_id, update_queue, cur, api,
                   response, typing_task, task_actions>>
    /\ request_base' = request_base
    /\ user_saved' = user_saved

\* requests.post returns or raises; on anything but a good answer
\* get_ai_response returns and handle_message cancels the typing task
Post ==
    /\ pc = "post"
    /\ \E outcome \in ApiOutcomes :
         /\ api' = outcome
         /\ response' = TextReply(ResponseText(outcome))
         /\ IF ReachesSave(outcome)
            THEN pc' = "save_ai" /\ typing_task' = typing_task
            ELSE pc' = "reply" /\ typing_task' = CancelTyping(typing_task)
    /\ UNCHANGED <<supabase, conversations, next_id, update_queue, cur, history,
                   sel_path, middle_indices, messages, task_actions>>
    /\ request_base' = request_base
    /\ user_saved' = user_saved

\* get_ai_response, step 5: save_message(user_id, "assistant", ai_response),
\* return ai_response; handle_message cancels the typing task
SaveAssistant ==
    /\ pc = "save_ai"
    /\ \E ok \in (IF supabase THEN BOOLEAN ELSE {FALSE}) :
         /\ conversations' = save_message(conversations, next_id, cur.user,
                                          "assistant", response.text, ok)
         /\ next_id' = IF conversations' # conversations THEN next_id + 1 ELSE next_id
    /\ pc' = "reply"
    /\ typing_task' = CancelTyping(typing_task)
    /\ UNCHANGED <<supabase, update_queue, cur, history, sel_path,
                   middle_indices, messages, api, response, task_actions>>
    /\ request_base' = request_base
    /\ user_saved' = user_saved

\* keep_typing gets the loop: a cancelled task ends at once, a live one
\* sends a chat action and sleeps
TypingStep ==
    /\ LoopFree
    /\ typing_task \in {"created", "sleeping", "cancelling"}
    /\ IF typing_task = "cancelling"
       THEN typing_task' = "cancelled" /\ task_actions' = task_actions
       ELSE IF task_actions < TYPING_SECONDS \div TYPING_PERIOD
            THEN typing_task' = "sleeping" /\ task_actions' = task_actions + 1
            ELSE typing_task' = "finished" /\ task_actions' = task_actions
    /\ UNCHANGED <<supabase, conversations, next_id, update_queue, cur, pc,
                   history, sel_path, middle_indices, messages, api, response>>
    /\ request_base' = request_base
    /\ user_saved' = user_saved

\* /history
HistoryCommand ==
    /\ pc = "history"
    /\ \E ok \in (IF supabase THEN BOOLEAN ELSE {FALSE}) :
         LET history_data == get_conversation_history(conversations, cur.user,
                                                      HISTORY_LIMIT, ok)
         IN  response' = IF history_data = <<>>
                         THEN TextReply("history-empty")
                         ELSE MkReply("history", "", NoStats,
                                      HistoryLines(history_data))
    /\ pc' = "reply"
    /\ UNCHANGED <<supabase, conversations, next_id, update_queue, cur, history,
                   sel_path, middle_indices, messages, api, typing_task,
                   task_actions>>
    /\ request_base' = request_base
    /\ user_saved' = user_saved

\* /clear
ClearCommand ==
    /\ pc = "clear"
    /\ \E ok \in (IF supabase THEN BOOLEAN ELSE {FALSE}) :
         /\ conversations' = clear_history(conversations, cur.user, ok)
         /\ response' = IF supabase /\ ok THEN TextReply("cleared")
                        ELSE TextReply("clear-failed")
    /\ pc' = "reply"
    /\ UNCHANGED <<supabase, next_id, update_queue, cur, history, sel_path,
                   middle_indices, messages, api, typing_task, task_actions>>
    /\ request_base' = request_base
    /\ user_saved' = user_saved

\* /stats
StatsCommand ==
    /\ pc = "stats"
    /\ \E ok \in (IF supabase THEN BOOLEAN ELSE {FALSE}) :
         IF supabase /\ ok
         THEN \E data \in StatsReads(conversations, cur.user) :
                response' = MkReply("stats", LastActiveShown(StatsOf(data)),
                                    StatsOf(data), <<>>)
         ELSE response' = MkReply("stats", LastActiveShown(StatsFailed),
                                  StatsFailed, <<>>)
    /\ pc' = "reply"
    /\ UNCHANGED <<supabase, conversations, next_id, update_queue, cur, history,
                   sel_path, middle_indices, messages, api, typing_task,
                   task_actions>>
    /\ request_base' = request_base
    /\ user_saved' = user_saved

\* await update.message.reply_text(...) returns and the handler ends; the
\* loop has run the step of the typing task that was ready by then
Reply ==
    /\ pc = "reply"
    /\ typing_task \notin {"created", "cancelling"}
    /\ cur' = NoUpdate
    /\ pc' = "idle"
    /\ history' = <<>>
    /\ sel_path' = "none"
    /\ middle_indices' = <<>>
    /\ messages' = <<>>
    /\ api' = ApiPending
    /\ response' = NoReply
    /\ request_base' = 0
    /\ user_saved' = "unset"
    /\ UNCHANGED <<supabase, conversations, next_id, update_queue, typing_task,
                   task_actions>>

Next ==
    \/ Dispatch
    \/ StartResponse
    \/ SaveUser
    \/ Select
    \/ Post
    \/ SaveAssistant
    \/ TypingStep
    \/ HistoryCommand
    \/ ClearCommand
    \/ StatsCommand
    \/ Reply

Spec == Init /\ [][Next]_vars

\* one message of u1 on each of the selector's tables, up to the API call
InitSelector ==
    InitWith({PresetTable(p[1], p[2]) : p \in SelectorPresets},
             {<<[kind |-> "message", user |-> "u1", text |-> "hello"]>>})

NextSelector ==
    \/ Dispatch
    \/ StartResponse
    \/ SaveUser
    \/ Select

SpecSelector == InitSelector /\ [][NextSelector]_vars

----------------------------------------------------------------------------
(* The selector's contract.  In a state with pc = "post" the selector has  *)
(* just returned history for cur.user and the table is the one it read.    *)

\* the user's log, oldest first, as the table holds it
Log(user_id) == UserRows(conversations, user_id)

\* the at most CAP most recent turns of the user's log, oldest first
Fetched(user_id) == LastN(Log(user_id), CAP)

\* the selector returned after a store read that succeeded
SelectorRead == pc = "post" /\ sel_path \in {"all", "reduced"}

\* every row is at or after the row before it
Ascending(h) == \A i \in 1..(Len(h) - 1) : h[i].created_at <= h[i + 1].created_at

\* as many ids as rows
NoDuplicateId(h) == Cardinality({h[i].id : i \in 1..Len(h)}) = Len(h)

RowsOf(h) == {h[i] : i \in 1..Len(h)}

\* C1: when at most TARGET turns are fetched (the empty log included), the
\* selector returns exactly the fetched sequence: same turns, same order.
C1_SmallLogReturnedWhole ==
    (SelectorRead /\ Len(Fetched(cur.user)) <= TARGET)
        => history = Fetched(cur.user)

C1_Witness ==
    /\ SelectorRead
    /\ Len(Fetched(cur.user)) = TARGET
    /\ history = Fetched(cur.user)

\* C2: when more than TARGET turns are fetched, the selector returns between
\* min(n, R) and R + A + S turns, and no two of them share an id.
C2_ReducedSizeAndUnique ==
    (SelectorRead /\ Len(Fetched(cur.user)) > TARGET)
        => /\ Len(history) >= Min(Len(Fetched(cur.user)), R)
           /\ Len(history) <= R + A + S
           /\ NoDuplicateId(history)

C2_Witness ==
    /\ SelectorRead
    /\ Len(Fetched(cur.user)) = CAP
    /\ Len(history) = R + A + S

\* C3: when more than TARGET turns are fetched, each of the R last fetched
\* turns is in the selector's result, whatever the mid-sample drew.
C3_RecentAlwaysSelected ==
    (SelectorRead /\ Len(Fetched(cur.user)) > TARGET)
        => RowsOf(LastN(Fetched(cur.user), R)) \subseteq RowsOf(history)

C3_Witness ==
    /\ SelectorRead
    /\ Len(Log(cur.user)) > CAP
    /\ Len(Fetched(cur.user)) = CAP
    /\ Len(middle_indices) = S
    /\ Len(LastN(Fetched(cur.user), R)) = R

\* C4: on every return of the selector (early return, three-slice union,
\* fallback) the result is ascending by created_at.
C4_ResultAscending == pc = "post" => Ascending(history)

C4_Witness ==
    /\ pc = "post"
    /\ sel_path = "reduced"
    /\ Len(middle_indices) >= 2
    /\ middle_indices[1] > middle_indices[2]
    /\ Ascending(history)

\* C7: when the selector's store read fails, the selector returns the plain
\* read of the FALLBACK_LIMIT most recent turns, oldest first, and the empty
\* sequence when that read fails too.
C7_FallbackIsPlainRead ==
    /\ (pc = "post" /\ sel_path = "fallback")
           => history = LastN(Log(cur.user), FALLBACK_LIMIT)
    /\ (pc = "post" /\ sel_path = "fallback_failed") => history = <<>>

C7_Witness ==
    /\ pc = "post"
    /\ sel_path = "fallback"
    /\ Len(Log(cur.user)) > FALLBACK_LIMIT
    /\ Len(history) = FALLBACK_LIMIT

----------------------------------------------------------------------------
(* The session's contract.  In a state with pc = "reply" get_ai_response   *)
(* has returned response; api is how its generation call ended.            *)

\* the rows written since get_ai_response was entered
AddedByRequest == SelectSeq(conversations, LAMBDA r : r.id >= request_base)

\* get_ai_response has returned
Returned == pc = "reply" /\ cur.kind = "message"

\* at most the incoming user turn was written
OnlyUserTurnAdded ==
    /\ Len(AddedByRequest) <= 1
    /\ \A i \in 1..Len(AddedByRequest) :
         /\ AddedByRequest[i].role = "user"
         /\ AddedByRequest[i].user_id = cur.user
         /\ AddedByRequest[i].content = cur.text

\* C5: when the generation call times out, the session returns the fixed
\* timeout message and the request has added no assistant turn: at most the
\* incoming user turn.
C5_TimeoutAppendsNothing ==
    (Returned /\ api.kind = "timeout")
        => /\ response = TextReply(MsgTimeout)
           /\ OnlyUserTurnAdded

C5_Witness ==
    /\ Returned
    /\ api.kind = "timeout"
    /\ response = TextReply(MsgTimeout)
    /\ Len(AddedByRequest) = 1

\* the generation call ended with a non-2xx status, with an exception that
\* is no timeout, or with a success body that cannot be read
GenerationFailed ==
    \/ api.kind = "exception"
    \/ api.kind = "response" /\ (api.status < 200 \/ api.status > 299)
    \/ api.kind = "response" /\ api.status = HTTP_OK /\ api.body = "malformed"

\* C6: when the generation call fails other than by a timeout, the session
\* returns a fixed failure message that is not the timeout message and holds
\* nothing the API sent, and the request has added no assistant turn.
C6_FailureAppendsNothing ==
    (Returned /\ GenerationFailed)
        => /\ response.kind = "text"
           /\ response.text \in FixedMessages \ {MsgTimeout}
           /\ response.text # api.text
           /\ OnlyUserTurnAdded

C6_Witness ==
    /\ Returned
    /\ api.kind = "response"
    /\ api.status = 500
    /\ response = TextReply(MsgStatusError)
    /\ Len(AddedByRequest) = 1

IsPrefix(a, b) == Len(a) <= Len(b) /\ SubSeq(b, 1, Len(a)) = a

\* C8: the message list of the request is one system preamble, then the
\* selector's turns in the selector's order with their roles, then the new
\* user message as the last entry.
C8_RequestShape ==
    pc = "post"
        => /\ Len(messages) = Len(history) + 2
           /\ messages[1] = [role |-> "system", content |-> SystemPrompt]
           /\ \A i \in 1..Len(history) :
                /\ messages[i + 1].role = history[i].role
                /\ messages[i + 1].role # "system"
                /\ IsPrefix(messages[i + 1].content, history[i].content)
           /\ messages[Len(messages)] = [role |-> "user", content |-> cur.text]

C8_Witness ==
    /\ pc = "post"
    /\ sel_path = "reduced"
    /\ Len(history) > R + A
    /\ Len(messages) = Len(history) + 2
    /\ \E i \in 1..Len(history) : history[i].role = "assistant"
    /\ \E i \in 1..Len(history) : history[i].role = "user"

\* C9: no history entry of a request is longer than the per-turn cap of 500
\* characters (the stored content is not cut).
C9_HistoryEntriesCapped ==
    pc = "post"
        => \A i \in 2..(Len(messages) - 1) : Len(messages[i].content) <= 500

\* C10: while one user's session waits on its store read or its generation
\* call, the handling of a pending message of another user can start.
C10_OtherUsersNotBlocked ==
    (/\ pc \in {"select", "post"}
     /\ update_queue # <<>>
     /\ Head(update_queue).kind = "message"
     /\ Head(update_queue).user # cur.user)
        => ENABLED Dispatch

----------------------------------------------------------------------------
(* The typing task *)

\* the typing task can still send a chat action
TaskLive == typing_task \in {"created", "sleeping", "cancelling"}

\* C11: once get_ai_response has returned (success, timeout or error) the
\* typing task is cancelled, and no typing task is left to act after the
\* handler has sent its reply.
C11_TypingCancelled ==
    /\ Returned => typing_task \in {"cancelling", "cancelled"}
    /\ pc = "idle" => ~TaskLive

C11_Witness ==
    /\ Returned
    /\ api.kind = "timeout"
    /\ typing_task = "cancelled"
    /\ task_actions = 0

----------------------------------------------------------------------------
(* The log store *)

\* C12: in every step each user's log stays as it is, or gets one row at its
\* end by a handler of that user, or is emptied by /clear of that user.
C12_LogsAppendOnly ==
    [][\A u \in Users :
         LET old == UserRows(conversations, u)
             new == UserRows(conversations', u)
         IN  \/ new = old
             \/ /\ cur.user = u
                /\ Len(new) = Len(old) + 1
                /\ SubSeq(new, 1, Len(old)) = old
             \/ /\ cur.user = u
                /\ pc = "clear"
                /\ new = <<>>]_vars

C12_Witness ==
    /\ pc = "reply"
    /\ cur.kind = "clear"
    /\ response = TextReply("cleared")
    /\ Log(cur.user) = <<>>
    /\ \E u \in Users : Len(Log(u)) = 2
    /\ next_id = Len(conversations) + 4

\* /stats has computed its reply
StatsShown == pc = "reply" /\ cur.kind = "stats"

\* C13: the counts of get_stats satisfy total = user + assistant, on the
\* failure returns too.
C13_StatsAddUp ==
    StatsShown => response.stats.total = response.stats.user + response.stats.assistant

C13_Witness ==
    /\ StatsShown
    /\ response.stats.user > 1
    /\ response.stats.assistant > 1
    /\ response.stats.total = response.stats.user + response.stats.assistant

\* the row the last successful save_message of the running request wrote
LastAdded == AddedByRequest[Len(AddedByRequest)]

Cleared == pc = "reply" /\ cur.kind = "clear" /\ response = TextReply("cleared")

\* C15: after clear_history has succeeded the user's log reads as empty:
\* get_stats counts no row and the selector fetches none.
C15_ClearedReadsEmpty ==
    Cleared
        => /\ \A data \in StatsReads(conversations, cur.user) : StatsOf(data).total = 0
           /\ AllMessages(OrderDescLimit(conversations, cur.user, CAP)) = <<>>

C15_Witness ==
    /\ Cleared
    /\ Log(cur.user) = <<>>
    /\ next_id > Len(conversations) + TARGET

\* the running request is in get_ai_response after a failed save of the
\* incoming user turn
UserSaveFailed == cur.kind = "message" /\ user_saved = "failed"

\* C16: when the save of the incoming user turn fails, get_ai_response still
\* runs the selector and the generation call and returns the generated reply;
\* the turn is not in the log nor in the selected history.
C16_FailedSaveIsNotFatal ==
    UserSaveFailed
        => /\ pc \in {"select", "post", "save_ai", "reply"}
           /\ Returned => (sel_path # "none" /\ api # ApiPending)
           /\ (Returned /\ ReachesSave(api)) => response = TextReply(api.text)
           /\ \A i \in 1..Len(AddedByRequest) : AddedByRequest[i].role # "user"
           /\ \A i \in 1..Len(history) : history[i].id < request_base

C16_Witness ==
    /\ UserSaveFailed
    /\ supabase
    /\ Returned
    /\ ReachesSave(api)
    /\ response = TextReply(api.text)
    /\ Len(AddedByRequest) = 1

\* C17: the last activity /stats shows is the created_at of the last turn of
\* the user's log when the log is not empty, and the never marker when the
\* read succeeded and the log is empty.
C17_LastActivityShown ==
    (StatsShown /\ response.stats.last_active # "absent")
        => IF Log(cur.user) = <<>>
           THEN response.text = "never"
           ELSE /\ response.text = "at"
                /\ response.stats.last_at = Log(cur.user)[Len(Log(cur.user))].created_at

----------------------------------------------------------------------------
(* The mid-sample *)

\* the selector returned the three-slice union
Reduced == pc = "post" /\ sel_path = "reduced"

\* the indices of a sequence of indices
Drawn == {middle_indices[i] : i \in 1..Len(middle_indices)}

\* how many indices are drawn for n fetched turns
ExpectedDraws(n) == IF n > 2 * R THEN Min(S, n - 2 * R) ELSE 0

\* C18: with n > TARGET fetched turns every drawn index is in [R, n - R), no
\* index is drawn twice, min(S, n - 2R) indices are drawn when n > 2R and
\* none when n <= 2R.
C18_DrawsInMiddle ==
    Reduced
        => /\ \A i \in Drawn : R <= i /\ i < Len(Fetched(cur.user)) - R
           /\ Cardinality(Drawn) = Len(middle_indices)
           /\ Len(middle_indices) = ExpectedDraws(Len(Fetched(cur.user)))

C18_Witness ==
    /\ Reduced
    /\ Len(Fetched(cur.user)) = 2 * R + 3
    /\ Drawn = {R, R + 1, R + 2}

\* C19: for 41..80 fetched turns the three slices are pairwise disjoint, the
\* deduplication removes nothing, the result has R + A turns plus the drawn
\* ones, and the first A fetched turns are in it.
C19_SlicesDisjoint ==
    Reduced
        => LET n == Len(Fetched(cur.user))
               recent == (n - R)..(n - 1)
               anchor == 0..(A - 1)
           IN  /\ recent \cap anchor = {}
               /\ recent \cap Drawn = {}
               /\ anchor \cap Drawn = {}
               /\ Len(history) = Len(Candidates(Fetched(cur.user), middle_indices))
               /\ Len(history) = R + A + ExpectedDraws(n)
               /\ RowsOf(FirstN(Fetched(cur.user), A)) \subseteq RowsOf(history)

C19_Witness ==
    /\ Reduced
    /\ Len(Fetched(cur.user)) = TARGET + 1
    /\ Len(history) = R + A
    /\ middle_indices = <<>>

----------------------------------------------------------------------------
(* The incoming turn in the request *)

\* C20: when the incoming user turn was saved, the selected history does not
\* hold it, so the request holds it once, as its last entry.
C20_IncomingTurnOnce ==
    (pc = "post" /\ user_saved = "saved")
        => \A i \in 1..Len(history) : history[i].id < request_base

============================================================================
